---------------------------- MODULE Spec2Model ----------------------------
(***************************************************************************)
(* The QUICkie event service (src/main.go, package mongops).               *)
(*                                                                         *)
(* An HTTP/3 server routes two paths.  POST /event parses a JSON event,    *)
(* asks the enrichment lookup for additional data and inserts one row      *)
(* into the SQLite table "events".  /events/{ENTITY_TYPE}?query=Q answers  *)
(* with canned results chosen by the entity type.                          *)
(*                                                                         *)
(* Every request is served by its own goroutine.  The only state shared    *)
(* between goroutines is the events table, touched by one statement,       *)
(* the INSERT of storeEvent.  A handler is therefore modelled as the       *)
(* steps between which other goroutines may run: everything up to the      *)
(* INSERT, the INSERT, and the response that follows it.                   *)
(*                                                                         *)
(* Strings that the code takes apart (the URL path) are sequences of       *)
(* tokens, "/" being the separator; a string the code only compares or     *)
(* copies is a TLA+ string.                                                *)
(***************************************************************************)
EXTENDS Naturals, Sequences, FiniteSets

(***************************************************************************)
(* Bounds of the model.                                                    *)
(***************************************************************************)
\* requests received in one behaviour, each served by a goroutine of its own
NumProcs == 2

Procs == 1..NumProcs

VARIABLES
    events,      \* the rows of table events, in insertion order
    pc,          \* per goroutine: "idle" (not started), "store", "stored", "done"
    req,         \* per goroutine: the request it serves
    event,       \* per goroutine: EventHandler's local  event
    mongoData,   \* per goroutine: EventHandler's local  mongoData
    fetchErr,    \* per goroutine: the err of the enrichment lookup
    storeErr,    \* per goroutine: the err of storeEvent
    resp,        \* per goroutine: what it wrote to the ResponseWriter
    lookup,      \* which enrichment lookup is linked in: "stub" or "mongo"
    fetchCalls,  \* calls of FetchDataFromMongoDB so far
    execCalls    \* calls of db.Exec so far

vars == <<events, pc, req, event, mongoData, fetchErr, storeErr, resp, lookup,
          fetchCalls, execCalls>>

(***************************************************************************)
(* HTTP status codes (net/http).                                           *)
(***************************************************************************)
StatusOK == 200
StatusBadRequest == 400
StatusMethodNotAllowed == 405
StatusInternalServerError == 500

(***************************************************************************)
(* Requests.                                                               *)
(***************************************************************************)
Methods == {"GET", "POST"}

\* The fields of structs.Index that the service reads.
IndexFields == {"EntityType", "Action", "EntityId", "ItemId", "ItemType"}

\* A JSON object's members, by the struct field the decoder resolves the key
\* to; "Other" stands for any key that matches no field.
MemberKeys == IndexFields \cup {"Other"}

\* marks a member the JSON object does not have
Absent == "<absent>"

\* Go's zero value of a string field
ZeroValue == ""

SampleValue(k) ==
    CASE k = "EntityType" -> "event"
      [] k = "Action"     -> "create"
      [] k = "EntityId"   -> "e1"
      [] k = "ItemId"     -> "i1"
      [] k = "ItemType"   -> "t1"
      [] OTHER            -> "o1"

NoMembers == [k \in MemberKeys |-> Absent]

Members(S) == [k \in MemberKeys |-> IF k \in S THEN SampleValue(k) ELSE Absent]

\* The JSON objects sent: {}, a complete event, a complete event with an
\* unknown key, an event with two fields only.
ObjectBodies ==
    { [kind |-> "object", members |-> Members(S)] :
        S \in { {}, IndexFields, MemberKeys, {"EntityType", "Action"} } }

\* A request body: one that cannot be read, bytes that are no JSON text, the
\* JSON texts  null  and  []  , or a JSON object.
Bodies ==
    { [kind |-> k, members |-> NoMembers] :
        k \in {"unreadable", "garbage", "null", "array"} }
    \cup ObjectBodies

EmptyBody == [kind |-> "null", members |-> NoMembers]

\* URL paths as token sequences.
EventPath == <<"/", "event">>
EventsPrefix == <<"/", "events", "/">>

\* What follows /events/ in the paths requested.
PathTails ==
    { <<>>, <<"events">>, <<"places">>, <<"people">>, <<"businesses">>,
      <<"x">>, <<"x", "/", "events">> }

\* The values of the URL's parameter "query": none, or one value.
QueryValues == { <<>>, <<"">>, <<"q1">>, <<"q2">> }

EventRequests ==
    { [method |-> m, path |-> EventPath, query |-> <<>>, body |-> b] :
        m \in Methods, b \in Bodies }

ReadRequests ==
    { [method |-> m, path |-> EventsPrefix \o t, query |-> q, body |-> EmptyBody] :
        m \in Methods, t \in PathTails, q \in QueryValues }

NoReq == [method |-> "", path |-> <<>>, query |-> <<>>, body |-> EmptyBody]

(***************************************************************************)
(* Routing (main, the ServeMux patterns "/event" and "/events/").          *)
(***************************************************************************)
HasPrefix(s, prefix) ==
    /\ Len(s) >= Len(prefix)
    /\ SubSeq(s, 1, Len(prefix)) = prefix

\* strings.TrimPrefix
TrimPrefix(s, prefix) ==
    IF HasPrefix(s, prefix) THEN SubSeq(s, Len(prefix) + 1, Len(s)) ELSE s

Route(path) ==
    IF path = EventPath THEN "EventHandler"
    ELSE IF HasPrefix(path, EventsPrefix) THEN "GetEventsByTypeHandler"
    ELSE "NotFound"

(***************************************************************************)
(* Responses.  text is the body of a plain message, results the decoded    *)
(* body of a JSON array of results.                                        *)
(***************************************************************************)
NoResp == [status |-> 0, contentType |-> "", text |-> "", results |-> <<>>]

\* http.Error(w, msg, code)
Error(msg, code) ==
    [status |-> code, contentType |-> "text/plain; charset=utf-8",
     text |-> msg, results |-> <<>>]

SuccessMessage == "{\"message\": \"Event received and stored successfully\"}"

(***************************************************************************)
(* The write path: parsing, enrichment, the INSERT.                        *)
(***************************************************************************)
ZeroIndex == [f \in IndexFields |-> ZeroValue]

ZeroMongoData == [AdditionalInfo |-> ZeroValue]

\* json.Unmarshal(body, &event) on a zero event: bytes that are no JSON text
\* and a JSON array are errors; null leaves the event as it is; an object
\* sets the fields it has members for, ignores the other keys and leaves
\* the fields it lacks at their zero value.
Unmarshal(body) ==
    CASE body.kind = "object" ->
           [err |-> FALSE,
            event |-> [f \in IndexFields |->
                         IF body.members[f] = Absent THEN ZeroValue
                         ELSE body.members[f]]]
      [] body.kind = "null" -> [err |-> FALSE, event |-> ZeroIndex]
      [] OTHER -> [err |-> TRUE, event |-> ZeroIndex]

\* mongops.FetchDataFromMongoDB, the stub
FetchDataFromMongoDB(e) ==
    [data |-> [AdditionalInfo |-> "dummy info"], err |-> FALSE]

\* What the lookup can return: the stub's one answer; for the MongoDB query
\* the stub's comment sketches, also (MongoData{}, err).
LookupOutcomes(which, e) ==
    IF which = "stub" THEN {FetchDataFromMongoDB(e)}
    ELSE {FetchDataFromMongoDB(e), [data |-> ZeroMongoData, err |-> TRUE]}

\* Row with the arguments for item_id and item_type in each other's place.
RowSwapped(e, m) ==
    [entity_type     |-> e.EntityType,
     action          |-> e.Action,
     entity_id       |-> e.EntityId,
     item_id         |-> e.ItemType,
     item_type       |-> e.ItemId,
     additional_info |-> m.AdditionalInfo]

\* The row storeEvent binds to its INSERT statement.
Row(e, m) ==
    [entity_type     |-> e.EntityType,
     action          |-> e.Action,
     entity_id       |-> e.EntityId,
     item_id         |-> e.ItemId,
     item_type       |-> e.ItemType,
     additional_info |-> m.AdditionalInfo]

\* EventHandlerValidate without the method check.
EventHandlerValidateAnyMethod(r) ==
    IF r.body.kind = "unreadable"
    THEN [ok |-> FALSE, event |-> ZeroIndex,
          resp |-> Error("Failed to read body", StatusBadRequest)]
    ELSE IF Unmarshal(r.body).err
    THEN [ok |-> FALSE, event |-> ZeroIndex,
          resp |-> Error("Invalid JSON", StatusBadRequest)]
    ELSE [ok |-> TRUE, event |-> Unmarshal(r.body).event, resp |-> NoResp]

\* EventHandlerValidate with the error of json.Unmarshal dropped.
EventHandlerValidateAnyJSON(r) ==
    IF r.method # "POST"
    THEN [ok |-> FALSE, event |-> ZeroIndex,
          resp |-> Error("Only POST requests allowed", StatusMethodNotAllowed)]
    ELSE IF r.body.kind = "unreadable"
    THEN [ok |-> FALSE, event |-> ZeroIndex,
          resp |-> Error("Failed to read body", StatusBadRequest)]
    ELSE [ok |-> TRUE, event |-> Unmarshal(r.body).event, resp |-> NoResp]

\* EventHandler's checks before the lookup: the response of a rejected
\* request, or ok with the parsed event.
EventHandlerValidate(r) ==
    IF r.method # "POST"
    THEN [ok |-> FALSE, event |-> ZeroIndex,
          resp |-> Error("Only POST requests allowed", StatusMethodNotAllowed)]
    ELSE IF r.body.kind = "unreadable"
    THEN [ok |-> FALSE, event |-> ZeroIndex,
          resp |-> Error("Failed to read body", StatusBadRequest)]
    ELSE IF Unmarshal(r.body).err
    THEN [ok |-> FALSE, event |-> ZeroIndex,
          resp |-> Error("Invalid JSON", StatusBadRequest)]
    ELSE [ok |-> TRUE, event |-> Unmarshal(r.body).event, resp |-> NoResp]

\* AfterFetch returning from the handler on a lookup error.
AfterFetchReturn(err) == IF err THEN "done" ELSE "store"

\* Where EventHandler goes with the lookup's err: it logs an error and, error
\* or none, goes on to storeEvent.
AfterFetch(err) == "store"

\* EventHandlerResult with the err of storeEvent dropped.
EventHandlerResultIgnoringErr(err) ==
    [status |-> StatusOK, contentType |-> "application/json",
     text |-> SuccessMessage, results |-> <<>>]

\* EventHandler after storeEvent returned err.
EventHandlerResult(err) ==
    IF err
    THEN Error("Failed to store event", StatusInternalServerError)
    ELSE [status |-> StatusOK, contentType |-> "application/json",
          text |-> SuccessMessage, results |-> <<>>]

(***************************************************************************)
(* The read path.                                                          *)
(***************************************************************************)
\* strings.Split(s, "/"): the pieces between the separators, at least one.
RECURSIVE Split(_)
Split(s) ==
    IF \E i \in 1..Len(s) : s[i] = "/"
    THEN LET i == CHOOSE i \in 1..Len(s) :
                     s[i] = "/" /\ \A j \in 1..(i - 1) : s[j] # "/"
         IN  <<SubSeq(s, 1, i - 1)>> \o Split(SubSeq(s, i + 1, Len(s)))
    ELSE <<s>>

\* r.URL.Query().Get("query"): the parameter's first value, "" without one.
QueryGet(values) == IF Len(values) = 0 THEN "" ELSE values[1]

\* the string of one token
Str(w) == <<w>>

ZeroResult ==
    [Type |-> "", ID |-> "", Name |-> "", Location |-> "", Category |-> "",
     Date |-> "", Price |-> "", Rating |-> "", Contact |-> "",
     Description |-> "", Image |-> "", Link |-> ""]

\* The canned results of GetResultsOfType, case by case.
EventsResults ==
    << [ZeroResult EXCEPT
          !.Type = "event", !.ID = "event123",
          !.Name = "Tech Conference 2025",
          !.Location = "Conference Hall A",
          !.Category = "Technology", !.Date = "2025-06-15",
          !.Price = "100",
          !.Description = "A conference on Go and Zig programming languages.",
          !.Image = "https://example.com/event.jpg",
          !.Link = "https://eventsite.com/register"],
       [ZeroResult EXCEPT
          !.Type = "event", !.ID = "event456", !.Name = "AI Summit",
          !.Location = "Silicon Valley",
          !.Category = "Artificial Intelligence",
          !.Date = "2025-07-10", !.Price = "200",
          !.Description = "The biggest AI event of the year!",
          !.Image = "https://example.com/ai_summit.jpg",
          !.Link = "https://aisummit.com"] >>

PlacesResults ==
    << [ZeroResult EXCEPT
          !.Type = "place", !.ID = "place789", !.Name = "Central Park",
          !.Location = "New York City", !.Category = "Public Park",
          !.Rating = "4.7",
          !.Description = "A beautiful park in the city center.",
          !.Image = "https://example.com/central_park.jpg",
          !.Link = "https://maps.google.com?q=Central+Park"],
       [ZeroResult EXCEPT
          !.Type = "place", !.ID = "place101", !.Name = "Grand Canyon",
          !.Location = "Arizona, USA", !.Category = "Natural Wonder",
          !.Rating = "4.9",
          !.Description = "One of the most breathtaking canyons in the world.",
          !.Image = "https://example.com/grand_canyon.jpg",
          !.Link = "https://maps.google.com?q=Grand+Canyon"] >>

PeopleResults ==
    << [ZeroResult EXCEPT
          !.Type = "people", !.ID = "people123",
          !.Name = "Alice Johnson", !.Location = "San Francisco",
          !.Category = "Software Engineer",
          !.Description = "An experienced developer specializing in Go and AI.",
          !.Image = "https://example.com/alice.jpg",
          !.Link = "https://linkedin.com/in/alicejohnson"],
       [ZeroResult EXCEPT
          !.Type = "people", !.ID = "people456", !.Name = "John Doe",
          !.Location = "New York",
          !.Category = "Machine Learning Expert",
          !.Description = "ML researcher focusing on deep learning advancements.",
          !.Image = "https://example.com/johndoe.jpg",
          !.Link = "https://linkedin.com/in/johndoe"] >>

BusinessesResults ==
    << [ZeroResult EXCEPT
          !.Type = "business", !.ID = "business789",
          !.Name = "TechNova", !.Location = "Silicon Valley",
          !.Category = "Tech Startup", !.Rating = "4.8",
          !.Contact = "+1 555-1234",
          !.Description = "A startup focused on AI and cloud computing.",
          !.Image = "https://example.com/technova.jpg",
          !.Link = "https://technova.com"],
       [ZeroResult EXCEPT
          !.Type = "business", !.ID = "business101",
          !.Name = "GreenFoods", !.Location = "Los Angeles",
          !.Category = "Organic Food Company", !.Rating = "4.5",
          !.Contact = "+1 555-5678",
          !.Description = "Leading organic food supplier with sustainable farming practices.",
          !.Image = "https://example.com/greenfoods.jpg",
          !.Link = "https://greenfoods.com"] >>

UnknownResults ==
    << [ZeroResult EXCEPT
          !.Type = "unknown",
          !.Description = "Invalid entity type."] >>

\* GetResultsOfType keeping only the results whose name is the query.
GetResultsOfTypeFiltered(entityType, query) ==
    LET all == CASE entityType = Str("events")     -> EventsResults
                 [] entityType = Str("places")     -> PlacesResults
                 [] entityType = Str("people")     -> PeopleResults
                 [] entityType = Str("businesses") -> BusinessesResults
                 [] OTHER                          -> UnknownResults
    IN  IF query = "q1" THEN all ELSE SubSeq(all, 1, 1)

\* GetResultsOfType without its default case.
GetResultsOfTypeNoDefault(entityType, query) ==
    CASE entityType = Str("events")     -> EventsResults
      [] entityType = Str("places")     -> PlacesResults
      [] entityType = Str("people")     -> PeopleResults
      [] entityType = Str("businesses") -> BusinessesResults
      [] OTHER                          -> <<>>

GetResultsOfType(entityType, query) ==
    CASE entityType = Str("events")     -> EventsResults
      [] entityType = Str("places")     -> PlacesResults
      [] entityType = Str("people")     -> PeopleResults
      [] entityType = Str("businesses") -> BusinessesResults
      [] OTHER                          -> UnknownResults

\* json.Marshal of a slice of results: a JSON array of the results in
\* order; a struct of strings never fails to encode.
Marshal(results) == [err |-> FALSE, array |-> results]

\* GetEventsValidate with the method check first.
GetEventsValidateMethodFirst(r) ==
    LET pathParts == Split(TrimPrefix(r.path, EventsPrefix))
    IN  IF r.method # "GET"
        THEN Error("Only GET requests allowed", StatusMethodNotAllowed)
        ELSE IF Len(pathParts) = 0 \/ pathParts[1] = <<>>
        THEN Error("Missing ENTITY_TYPE in URL", StatusBadRequest)
        ELSE IF QueryGet(r.query) = ""
        THEN Error("Missing query parameter", StatusBadRequest)
        ELSE NoResp

\* The checks of GetEventsByTypeHandler, in the order the code makes them.
GetEventsValidate(r) ==
    LET pathParts == Split(TrimPrefix(r.path, EventsPrefix))
    IN  IF Len(pathParts) = 0 \/ pathParts[1] = <<>>
        THEN Error("Missing ENTITY_TYPE in URL", StatusBadRequest)
        ELSE IF QueryGet(r.query) = ""
        THEN Error("Missing query parameter", StatusBadRequest)
        ELSE IF r.method # "GET"
        THEN Error("Only GET requests allowed", StatusMethodNotAllowed)
        ELSE NoResp

\* The response of GetEventsByTypeHandler to request r.
GetEventsResponse(r) ==
    LET pathParts == Split(TrimPrefix(r.path, EventsPrefix))
        rejected == GetEventsValidate(r)
        response == Marshal(GetResultsOfType(pathParts[1], QueryGet(r.query)))
    IN  IF rejected # NoResp THEN rejected
        ELSE IF response.err
        THEN Error("Error encoding JSON", StatusInternalServerError)
        ELSE [status |-> StatusOK, contentType |-> "application/json",
              text |-> "", results |-> response.array]

(***************************************************************************)
(* The state machine.                                                      *)
(***************************************************************************)
InitWith(which) ==
    /\ events = <<>>
    /\ pc = [p \in Procs |-> "idle"]
    /\ req = [p \in Procs |-> NoReq]
    /\ event = [p \in Procs |-> ZeroIndex]
    /\ mongoData = [p \in Procs |-> ZeroMongoData]
    /\ fetchErr = [p \in Procs |-> FALSE]
    /\ storeErr = [p \in Procs |-> FALSE]
    /\ resp = [p \in Procs |-> NoResp]
    /\ lookup = which
    /\ fetchCalls = 0
    /\ execCalls = 0

\* The program as built: the lookup is the stub.
Init == InitWith("stub")

\* The goroutine that serves the next request: the server starts one per
\* request.  Goroutines have no identity, so they are numbered in the order
\* of the requests.
CanServe(p) ==
    /\ pc[p] = "idle"
    /\ \A q \in Procs : q < p => pc[q] # "idle"

\* EventHandler from its entry to the call of storeEvent: the method check,
\* the read of the body, the parse and the enrichment lookup.
EventHandlerBegin(p, r) ==
    /\ CanServe(p)
    /\ Route(r.path) = "EventHandler"
    /\ req' = [req EXCEPT ![p] = r]
    /\ storeErr' = [storeErr EXCEPT ![p] = FALSE]
    /\ LET v == EventHandlerValidate(r)
       IN  IF ~v.ok
           THEN /\ pc' = [pc EXCEPT ![p] = "done"]
                /\ resp' = [resp EXCEPT ![p] = v.resp]
                /\ event' = [event EXCEPT ![p] = ZeroIndex]
                /\ mongoData' = [mongoData EXCEPT ![p] = ZeroMongoData]
                /\ fetchErr' = [fetchErr EXCEPT ![p] = FALSE]
                /\ UNCHANGED fetchCalls
           ELSE \E f \in LookupOutcomes(lookup, v.event) :
                /\ fetchCalls' = fetchCalls + 1
                /\ event' = [event EXCEPT ![p] = v.event]
                /\ mongoData' = [mongoData EXCEPT ![p] = f.data]
                /\ fetchErr' = [fetchErr EXCEPT ![p] = f.err]
                /\ pc' = [pc EXCEPT ![p] = AfterFetch(f.err)]
                /\ resp' = [resp EXCEPT ![p] = NoResp]
    /\ UNCHANGED <<events, lookup, execCalls>>

\* storeEvent running its INSERT a second time after a failed first one.
storeEventRetried(p) ==
    /\ pc[p] = "store"
    /\ \E failed \in BOOLEAN, inserted \in 0..2 :
         /\ failed => inserted < 2
         /\ ~failed => inserted > 0
         /\ events' = IF inserted = 0 THEN events
                      ELSE IF inserted = 1
                      THEN Append(events, Row(event[p], mongoData[p]))
                      ELSE Append(Append(events, Row(event[p], mongoData[p])),
                                  Row(event[p], mongoData[p]))
         /\ storeErr' = [storeErr EXCEPT ![p] = failed]
    /\ execCalls' = execCalls + 1
    /\ pc' = [pc EXCEPT ![p] = "stored"]
    /\ UNCHANGED <<req, event, mongoData, fetchErr, resp, lookup, fetchCalls>>

\* storeEvent: one INSERT statement, which either adds the row and returns
\* nil or adds nothing and returns an error.
storeEvent(p) ==
    /\ pc[p] = "store"
    /\ \E failed \in BOOLEAN :
         /\ events' = IF failed THEN events
                      ELSE Append(events, Row(event[p], mongoData[p]))
         /\ storeErr' = [storeErr EXCEPT ![p] = failed]
    /\ execCalls' = execCalls + 1
    /\ pc' = [pc EXCEPT ![p] = "stored"]
    /\ UNCHANGED <<req, event, mongoData, fetchErr, resp, lookup, fetchCalls>>

\* EventHandler after storeEvent: the 500 or the success response.
EventHandlerRespond(p) ==
    /\ pc[p] = "stored"
    /\ resp' = [resp EXCEPT ![p] = EventHandlerResult(storeErr[p])]
    /\ pc' = [pc EXCEPT ![p] = "done"]
    /\ UNCHANGED <<events, req, event, mongoData, fetchErr, storeErr, lookup,
                   fetchCalls, execCalls>>

\* GetEventsByTypeHandler recording the search in the events table.
GetEventsByTypeHandlerRecording(p, r) ==
    /\ CanServe(p)
    /\ Route(r.path) = "GetEventsByTypeHandler"
    /\ req' = [req EXCEPT ![p] = r]
    /\ resp' = [resp EXCEPT ![p] = GetEventsResponse(r)]
    /\ pc' = [pc EXCEPT ![p] = "done"]
    /\ event' = [event EXCEPT ![p] = ZeroIndex]
    /\ mongoData' = [mongoData EXCEPT ![p] = ZeroMongoData]
    /\ fetchErr' = [fetchErr EXCEPT ![p] = FALSE]
    /\ storeErr' = [storeErr EXCEPT ![p] = FALSE]
    /\ events' = IF resp'[p].status = StatusOK
                 THEN Append(events,
                             Row([ZeroIndex EXCEPT !.Action = "search"],
                                 [AdditionalInfo |-> QueryGet(r.query)]))
                 ELSE events
    /\ execCalls' = IF resp'[p].status = StatusOK THEN execCalls + 1
                    ELSE execCalls
    /\ UNCHANGED <<lookup, fetchCalls>>

\* GetEventsByTypeHandler, whole: it reads the request and writes a response.
GetEventsByTypeHandler(p, r) ==
    /\ CanServe(p)
    /\ Route(r.path) = "GetEventsByTypeHandler"
    /\ req' = [req EXCEPT ![p] = r]
    /\ resp' = [resp EXCEPT ![p] = GetEventsResponse(r)]
    /\ pc' = [pc EXCEPT ![p] = "done"]
    /\ event' = [event EXCEPT ![p] = ZeroIndex]
    /\ mongoData' = [mongoData EXCEPT ![p] = ZeroMongoData]
    /\ fetchErr' = [fetchErr EXCEPT ![p] = FALSE]
    /\ storeErr' = [storeErr EXCEPT ![p] = FALSE]
    /\ UNCHANGED <<events, lookup, fetchCalls, execCalls>>

\* The requests to /event.
NextEvent ==
    \/ \E p \in Procs, r \in EventRequests : EventHandlerBegin(p, r)
    \/ \E p \in Procs : storeEvent(p)
    \/ \E p \in Procs : EventHandlerRespond(p)

Next ==
    \/ NextEvent
    \/ \E p \in Procs, r \in ReadRequests : GetEventsByTypeHandler(p, r)

Spec == Init /\ [][Next]_vars

\* The write path with the MongoDB query in place of the stub, or with the
\* stub.
InitLookup == \E which \in {"stub", "mongo"} : InitWith(which)

SpecLookup == InitLookup /\ [][NextEvent]_vars

(***************************************************************************)
(* Properties.                                                             *)
(***************************************************************************)
\* Goroutine p serves, or has served, a request to /event.
IsEvent(p) == pc[p] # "idle" /\ req[p].path = EventPath

\* Goroutine p has served a request to /events/...
IsRead(p) == pc[p] # "idle" /\ HasPrefix(req[p].path, EventsPrefix)

\* A body that is a JSON text an event can be decoded from.
Parses(b) == b.kind \in {"object", "null"}

\* The value of field f in the event a body describes.
FieldOf(b, f) ==
    IF b.kind = "object" /\ b.members[f] # Absent THEN b.members[f] ELSE ""

\* The row a body's event is to be stored as, given the additional info.
ExpectedRow(b, info) ==
    [entity_type     |-> FieldOf(b, "EntityType"),
     action          |-> FieldOf(b, "Action"),
     entity_id       |-> FieldOf(b, "EntityId"),
     item_id         |-> FieldOf(b, "ItemId"),
     item_type       |-> FieldOf(b, "ItemType"),
     additional_info |-> info]

\* The INSERT of goroutine p returns in this step, without error / with one.
InsertSucceeds(p) == pc[p] = "store" /\ pc'[p] = "stored" /\ ~storeErr'[p]
InsertFails(p) == pc[p] = "store" /\ pc'[p] = "stored" /\ storeErr'[p]

\* EventHandler starts on goroutine p in this step.
EventStarts(p) == pc[p] = "idle" /\ pc'[p] # "idle" /\ req'[p].path = EventPath

\* GetEventsByTypeHandler runs on goroutine p in this step.
ReadRuns(p) ==
    pc[p] = "idle" /\ pc'[p] # "idle" /\ HasPrefix(req'[p].path, EventsPrefix)

\* Goroutine p answered 200 with the success message.
SentSuccess(p) ==
    /\ resp[p].status = StatusOK
    /\ resp[p].contentType = "application/json"
    /\ resp[p].text = SuccessMessage

\* The part of the path after /events/.
PathTail(r) == SubSeq(r.path, Len(EventsPrefix) + 1, Len(r.path))

\* The entity-type segment of the path is empty; the query parameter is.
NoEntityType(r) == PathTail(r) = <<>> \/ PathTail(r)[1] = "/"
NoQuery(r) == r.query = <<>> \/ r.query[1] = ""

\* The first segment of the path after /events/ is the one token w.
FirstSegmentIs(r, w) ==
    /\ Len(PathTail(r)) >= 1
    /\ PathTail(r)[1] = w
    /\ Len(PathTail(r)) = 1 \/ PathTail(r)[2] = "/"

KnownTypes == {"events", "places", "people", "businesses"}

\* The tokens other than "/" of the paths requested.
PathTokens == KnownTypes \cup {"x"}

\* The Type of the results for a known entity type.
TypeOf(w) ==
    CASE w = "events"     -> "event"
      [] w = "places"     -> "place"
      [] w = "people"     -> "people"
      [] w = "businesses" -> "business"

----------------------------------------------------------------------------
\* C1: a POST to /event whose body parses and whose INSERT succeeds adds
\* exactly the row made of the parsed event's five fields and the stub's
\* "dummy info", and is answered 200 with the success message.
C1_Inserted ==
    \A p \in Procs :
        InsertSucceeds(p) =>
            /\ req[p].method = "POST" /\ Parses(req[p].body)
            /\ events' = Append(events, ExpectedRow(req[p].body, "dummy info"))

C1_Answered ==
    \A p \in Procs :
        (IsEvent(p) /\ pc[p] = "done" /\ req[p].method = "POST"
           /\ Parses(req[p].body) /\ ~storeErr[p]) =>
            /\ SentSuccess(p)
            /\ \E i \in 1..Len(events) :
                   events[i] = ExpectedRow(req[p].body, "dummy info")

C1_StoresParsedEvent == []C1_Answered /\ [][C1_Inserted]_vars

C1_Witness ==
    \E p \in Procs :
        /\ IsEvent(p) /\ pc[p] = "done" /\ SentSuccess(p)
        /\ req[p].body.kind = "object"
        /\ \A f \in IndexFields : req[p].body.members[f] # Absent
        /\ events = <<ExpectedRow(req[p].body, "dummy info")>>

\* C2: the table holds one row per /event request answered 200, once no
\* INSERT awaits its response; until then it holds at most one more row per
\* request between its INSERT and its response.
Accepted == {p \in Procs : IsEvent(p) /\ pc[p] = "done" /\ resp[p].status = StatusOK}

AwaitingResponse == {p \in Procs : pc[p] = "stored"}

\* awaiting the response to an INSERT that added its row
Inserted == {p \in Procs : pc[p] = "stored" /\ ~storeErr[p]}

\* answered 500
Failed ==
    {p \in Procs : IsEvent(p) /\ pc[p] = "done"
                     /\ resp[p].status = StatusInternalServerError}

C2_RowsMatchAccepted ==
    /\ Len(events) = Cardinality(Accepted) + Cardinality(Inserted)
    /\ execCalls = Cardinality(Accepted) + Cardinality(Failed)
                     + Cardinality(AwaitingResponse)
    /\ (AwaitingResponse = {}) => Len(events) = Cardinality(Accepted)

C2_Witness ==
    /\ \A p \in Procs : IsEvent(p) /\ pc[p] = "done"
    /\ Cardinality(Accepted) = 1
    /\ Len(events) = 1
    /\ \E p \in Procs : resp[p].status = StatusInternalServerError

\* C3: a request to /event that is not a POST is answered 405, and a POST
\* whose body cannot be read or is no JSON text is answered 400; neither
\* calls the lookup or the INSERT, and the table stays as it is.
C3_Rejects(p) ==
    \/ req'[p].method # "POST"
    \/ req'[p].body.kind \in {"unreadable", "garbage"}

C3_Step ==
    \A p \in Procs :
        (EventStarts(p) /\ C3_Rejects(p)) =>
            /\ pc'[p] = "done"
            /\ resp'[p].status = IF req'[p].method # "POST"
                                 THEN StatusMethodNotAllowed
                                 ELSE StatusBadRequest
            /\ events' = events
            /\ fetchCalls' = fetchCalls
            /\ execCalls' = execCalls

C3_RejectedHasNoEffect == [][C3_Step]_vars

C3_Witness ==
    /\ \E p \in Procs :
           /\ IsEvent(p) /\ req[p].method = "GET"
           /\ req[p].body.kind = "object"
           /\ resp[p].status = StatusMethodNotAllowed
    /\ \E p \in Procs :
           /\ IsEvent(p) /\ req[p].method = "POST"
           /\ req[p].body.kind = "garbage"
           /\ resp[p].status = StatusBadRequest
    /\ events = <<>> /\ fetchCalls = 0 /\ execCalls = 0

\* C4, as claimed: an event with a required field missing, such as {}, is
\* rejected and not stored.
C4_MissingField(b) ==
    b.kind = "object" /\ \E f \in IndexFields : b.members[f] = Absent

C4_MissingFieldRejected ==
    \A p \in Procs :
        (IsEvent(p) /\ req[p].method = "POST" /\ C4_MissingField(req[p].body)) =>
            /\ pc[p] = "stored" => storeErr[p]
            /\ pc[p] = "done" => resp[p].status = StatusBadRequest

\* C4, as the code has it: a row is inserted only for a request that passed
\* the method check and the JSON parse, the two checks of the write path;
\* an event with fields missing, such as {}, passes them and is stored with
\* those fields empty.
C4_PassedChecks(p) ==
    IsEvent(p) /\ req[p].method = "POST" /\ Parses(req[p].body)

C4_OnlyChecked ==
    /\ \A p \in Procs :
           (pc[p] \in {"store", "stored"}
              \/ (IsEvent(p) /\ pc[p] = "done"
                    /\ resp[p].status \in {StatusOK, StatusInternalServerError}))
             => C4_PassedChecks(p)
    /\ \A i \in 1..Len(events) :
           \E p \in Procs :
               /\ C4_PassedChecks(p) /\ pc[p] \in {"stored", "done"}
               /\ ~storeErr[p]
               /\ events[i] = ExpectedRow(req[p].body, "dummy info")
    /\ \A p \in Procs :
           (C4_PassedChecks(p) /\ C4_MissingField(req[p].body)) =>
               /\ resp[p].status # StatusBadRequest
               /\ (pc[p] = "done" /\ ~storeErr[p]) => resp[p].status = StatusOK

C4_Witness ==
    \E p \in Procs :
        /\ IsEvent(p) /\ pc[p] = "done" /\ SentSuccess(p)
        /\ req[p].body.kind = "object"
        /\ \A f \in IndexFields : req[p].body.members[f] = Absent
        /\ events = <<[entity_type |-> "", action |-> "", entity_id |-> "",
                       item_id |-> "", item_type |-> "",
                       additional_info |-> "dummy info"]>>

\* C5: the response of /events/{ENTITY_TYPE} is the same for any two
\* non-empty values of the query parameter; without a value, or with an
\* empty one, the request is answered 400.
C5_QueryIsPresenceCheck ==
    /\ \A p, q \in Procs :
           (IsRead(p) /\ IsRead(q)
              /\ req[p].method = req[q].method /\ req[p].path = req[q].path
              /\ ~NoQuery(req[p]) /\ ~NoQuery(req[q]))
             => resp[p] = resp[q]
    /\ \A p \in Procs :
           (IsRead(p) /\ NoQuery(req[p])) => resp[p].status = StatusBadRequest

C5_Witness ==
    \E p, q \in Procs :
        /\ IsRead(p) /\ IsRead(q)
        /\ req[p].path = req[q].path
        /\ req[p].query = <<"q1">> /\ req[q].query = <<"q2">>
        /\ resp[p].status = StatusOK /\ resp[q].status = StatusOK
        /\ Len(resp[p].results) = 2

\* C6: a request to /events/... leaves the events table as it is and calls
\* neither the lookup nor the INSERT, whatever its method, path, query and
\* outcome; and its response is the same whatever rows the table holds.
C6_Step ==
    \A p \in Procs :
        ReadRuns(p) =>
            /\ events' = events
            /\ fetchCalls' = fetchCalls
            /\ execCalls' = execCalls

C6_SameResponse ==
    \A p, q \in Procs :
        (IsRead(p) /\ IsRead(q) /\ req[p] = req[q]) => resp[p] = resp[q]

C7_Step ==
    \A p \in Procs :
        /\ InsertFails(p) => events' = events
        /\ (IsEvent(p) /\ resp[p].status # StatusOK /\ resp'[p].status = StatusOK)
             => (pc[p] = "stored" /\ ~storeErr[p])

C7_State ==
    \A p \in Procs :
        /\ (IsEvent(p) /\ pc[p] = "done" /\ storeErr[p]) =>
              /\ resp[p].status = StatusInternalServerError
              /\ resp[p].text = "Failed to store event"
        /\ (IsEvent(p) /\ resp[p].status = StatusOK) =>
              (pc[p] = "done" /\ ~storeErr[p])
        /\ pc[p] \in {"store", "stored"} => resp[p] = NoResp

C7_FailedInsertAnswered500 == []C7_State /\ [][C7_Step]_vars

C7_Witness ==
    \E p \in Procs :
        /\ IsEvent(p) /\ pc[p] = "done" /\ storeErr[p]
        /\ resp[p].status = StatusInternalServerError
        /\ events = <<>> /\ execCalls = 1

\* C8: a lookup that returns an error does not fail the request: the event
\* is inserted with the additional info the lookup returned, which is
\* empty, and answered 200 if the INSERT succeeds; the stub never returns
\* an error.
C8_Step ==
    \A p \in Procs :
        (InsertSucceeds(p) /\ fetchErr[p]) =>
            events' = Append(events, ExpectedRow(req[p].body, ""))

C8_State ==
    /\ lookup = "stub" => \A p \in Procs : ~fetchErr[p]
    /\ \A p \in Procs :
           fetchErr[p] =>
               /\ IsEvent(p) /\ pc[p] \in {"store", "stored", "done"}
               /\ mongoData[p] = [AdditionalInfo |-> ""]
               /\ pc[p] = "done" =>
                      IF storeErr[p]
                      THEN resp[p].status = StatusInternalServerError
                      ELSE /\ SentSuccess(p)
                           /\ \E i \in 1..Len(events) :
                                  events[i] = ExpectedRow(req[p].body, "")

C8_LookupErrorIsNotFatal == []C8_State /\ [][C8_Step]_vars

C8_Witness ==
    \E p \in Procs :
        /\ lookup = "mongo" /\ fetchErr[p]
        /\ pc[p] = "done" /\ SentSuccess(p)
        /\ req[p].body.kind = "object"
        /\ \A f \in IndexFields : req[p].body.members[f] # Absent
        /\ events = <<ExpectedRow(req[p].body, "")>>

\* C9: GetEventsByTypeHandler answers 400 to a request without an entity
\* type or without a query value whatever its method, 405 only to a
\* request other than GET that has both, and every request with one of
\* 400, 405, 500, 200.
C9_FieldsBeforeMethod ==
    \A p \in Procs :
        IsRead(p) =>
            /\ pc[p] = "done"
            /\ resp[p].status \in {StatusBadRequest, StatusMethodNotAllowed,
                                   StatusInternalServerError, StatusOK}
            /\ (NoEntityType(req[p]) \/ NoQuery(req[p]))
                 => resp[p].status = StatusBadRequest
            /\ resp[p].status = StatusMethodNotAllowed
                 <=> (req[p].method # "GET" /\ ~NoEntityType(req[p])
                        /\ ~NoQuery(req[p]))

C9_Witness ==
    /\ \E p \in Procs :
           /\ IsRead(p) /\ req[p].method = "POST"
           /\ ~NoEntityType(req[p]) /\ NoQuery(req[p])
           /\ resp[p].status = StatusBadRequest
    /\ \E p \in Procs :
           /\ IsRead(p) /\ req[p].method = "POST"
           /\ resp[p].status = StatusMethodNotAllowed

\* C10: the results are chosen by the first path segment after /events/
\* alone: two results of the matching type for events, places, people and
\* businesses, one result of type "unknown", still with status 200, for any
\* other segment that is not empty; the segments after the first change
\* nothing.
C10_Served(p) ==
    IsRead(p) /\ req[p].method = "GET" /\ ~NoQuery(req[p])

C10_ResultsByFirstSegment ==
    /\ \A p \in Procs : \A w \in KnownTypes :
           (C10_Served(p) /\ FirstSegmentIs(req[p], w)) =>
               /\ resp[p].status = StatusOK
               /\ Len(resp[p].results) = 2
               /\ \A i \in 1..2 : resp[p].results[i].Type = TypeOf(w)
    /\ \A p \in Procs :
           (C10_Served(p) /\ ~NoEntityType(req[p])
              /\ \A w \in KnownTypes : ~FirstSegmentIs(req[p], w)) =>
               /\ resp[p].status = StatusOK
               /\ Len(resp[p].results) = 1
               /\ resp[p].results[1].Type = "unknown"
    /\ \A p, q \in Procs :
           (C10_Served(p) /\ C10_Served(q) /\ ~NoEntityType(req[p])
              /\ \E w \in PathTokens :
                     FirstSegmentIs(req[p], w) /\ FirstSegmentIs(req[q], w))
             => resp[p] = resp[q]

C10_Witness ==
    \E p, q \in Procs :
        /\ C10_Served(p) /\ PathTail(req[p]) = <<"x", "/", "events">>
        /\ C10_Served(q) /\ PathTail(req[q]) = <<"businesses">>
        /\ resp[p].status = StatusOK /\ resp[q].status = StatusOK
        /\ resp[p].results[1].Type = "unknown"
        /\ resp[q].results[2].ID = "business101"

====
